---- MODULE Spec2Model ----
(***************************************************************************)
(* The index facade of datacube-core (datacube/index/index.py): an Index   *)
(* owns one PostgresDb connection handle and four resource managers that   *)
(* share it.  The model covers construction (Index.__init__, from_config,  *)
(* DefaultIndexDriver.connect_to_index), first-use initialisation          *)
(* (init_db), close() and the with-block protocol (__enter__/__exit__),    *)
(* for several Index instances (one per process) working on one store.     *)
(*                                                                         *)
(* PostgresDb and the resource managers live in other modules of the       *)
(* repository; they are modelled from their documented contracts.          *)
(***************************************************************************)
EXTENDS Naturals, Sequences, FiniteSets

\* Number of Index instances (one per process) working on the same store.
NumIndex == 2
\* Number of documents default_metadata_type_docs() yields.
NumDocs == 2
\* The history counter of add invocations per document saturates here.
AddCallsCap == 2

Indexes == 1..NumIndex

VARIABLES
    schema,      \* store: the schema exists
    rows,        \* store: rows[n] = rows of the metadata type named n
    tableLock,   \* store: the process holding the registry's table lock, or 0
    addCalls,    \* history: metadata_types.add invocations per name
    dbs,         \* dbs[i]: the PostgresDb handle process i created, or NoDb
    idx,         \* idx[i]: the Index object of process i, or NoIndex
    ctor,        \* history: what process i asked for when it built its Index
    pc,          \* position of process i
    op,          \* the facade operation process i runs or ran last
    scope,       \* with-block state of process i: "out", "in", "exc"
    called,      \* history: process i has called init_db
    initRaised,  \* history: some init_db call raised
    noDefaults,  \* history: some init_db call had with_default_types=False
    seedFailedAt \* history: the k of the default document whose add failed, or 0

vars == <<schema, rows, tableLock, addCalls, dbs, idx, ctor, pc, op, scope, called,
          initRaised, noDefaults, seedFailedAt>>

storeVars == <<schema, rows, tableLock, addCalls>>
histVars == <<called, initRaised, noDefaults, seedFailedAt>>

----------------------------------------------------------------------------
\* Python values the facade's methods return.
PyNone == "None"
PyBool(b) == IF b THEN "True" ELSE "False"
\* Truth value testing as the with statement applies it to __exit__'s result.
Truthy(v) == v \in {"True", "self", "Index"}

\* Connection configurations: one reaches the store, one does not.
Configs == {[url |-> "postgresql:///datacube", reachable |-> TRUE],
            [url |-> "postgresql:///unreachable", reachable |-> FALSE]}
AppNames == {PyNone, "app"}

NoDb == [url |-> "", application_name |-> PyNone,
         validate_connection |-> FALSE, good |-> FALSE, idle |-> 0]
NoIndex == [db |-> 0]
NoCtor == [db |-> 0, application_name |-> PyNone, validate_connection |-> FALSE]

\* A call the facade issues on a collaborator, as a mock would record it.
Call(m, arg, flag) == [m |-> m, arg |-> arg, flag |-> flag]

NoOp == [name |-> "none", prev_close |-> FALSE,
         application_name |-> PyNone, validate_connection |-> FALSE,
         first |-> FALSE,
         fresh |-> FALSE, wdt |-> FALSE, wp |-> FALSE, is_new |-> FALSE,
         k |-> 0, existing |-> FALSE, calls |-> <<>>, out |-> "returned", ret |-> PyNone,
         err |-> "none", exc |-> FALSE]

\* A new operation record for process i; prev_close: it follows a close().
NewOp(i, name) ==
    [NoOp EXCEPT !.name = name, !.prev_close = (op[i].name = "close")]

----------------------------------------------------------------------------
\* PostgresDb.from_config: with validate_connection the handle confirms
\* connectivity before returning and raises when it cannot; without it the
\* connection is deferred to first use.
PostgresDb_from_config(config, application_name, validate_connection) ==
    IF validate_connection /\ ~config.reachable
    THEN [raised |-> TRUE, db |-> NoDb]
    ELSE [raised |-> FALSE,
          db |-> [url |-> config.url,
                  application_name |-> application_name,
                  validate_connection |-> validate_connection,
                  good |-> config.reachable,
                  idle |-> IF validate_connection THEN 1 ELSE 0]]

\* PostgresDb.init: idempotent schema initialisation; it looks for the
\* schema (has_schema is what it saw), creates it when it saw none, and tells
\* whether it did.
PostgresDb_init(has_schema, with_permissions) ==
    [is_new |-> ~has_schema, schema |-> TRUE]

\* PostgresDb.close: releases the idle pooled connections; a no-op on an
\* already idle handle.
PostgresDb_close(db) == [db EXCEPT !.idle = 0]

\* Any use of the handle checks a connection out and returns it to the pool.
PostgresDb_use(db) == [db EXCEPT !.idle = 1]

\* default_metadata_type_docs(): the fixed, ordered built-in documents.
default_metadata_type_docs == [k \in 1..NumDocs |-> [name |-> k]]

\* MetadataTypeResource.from_doc: the document wrapped as a MetadataType.
MetadataType_from_doc(doc) == [name |-> doc.name, definition |-> doc]

\* MetadataTypeResource.add: a type it found present is not stored again;
\* existing is what its lookup found.
MetadataType_add(r, metadata_type, existing) ==
    IF existing
    THEN r
    ELSE [r EXCEPT ![metadata_type.name] = @ + 1]

\* The resource managers' constructors: each keeps the handle (and the
\* manager it depends on); born is the order of construction in the Index.
UserResource(db, born) == [db |-> db, born |-> born]
MetadataTypeResource(db, born) == [db |-> db, born |-> born]
ProductResource(db, metadata_type_resource, born) ==
    [db |-> db, metadata_type_resource |-> metadata_type_resource.born,
     born |-> born]
DatasetResource(db, product_resource, born) ==
    [db |-> db, product_resource |-> product_resource.born, born |-> born]

\* Variant: the product registry is given a connection of its own.
Index__init__SecondConnection(db) ==
    LET users == UserResource(db, 1)
        metadata_types == MetadataTypeResource(db, 2)
        products == ProductResource(db + NumIndex, metadata_types, 3)
        datasets == DatasetResource(db, products, 4)
    IN [db |-> db, users |-> users, metadata_types |-> metadata_types,
        products |-> products, datasets |-> datasets]

\* Variant: the product registry is built before the metadata-type registry,
\* which does not exist yet when it is injected.
Index__init__ProductsFirst(db) ==
    LET users == UserResource(db, 1)
        products == ProductResource(db, [born |-> 0], 2)
        metadata_types == MetadataTypeResource(db, 3)
        datasets == DatasetResource(db, products, 4)
    IN [db |-> db, users |-> users, metadata_types |-> metadata_types,
        products |-> products, datasets |-> datasets]

\* Index.__init__(db): the four statements, in their order.
Index__init__(db) ==
    LET users == UserResource(db, 1)
        metadata_types == MetadataTypeResource(db, 2)
        products == ProductResource(db, metadata_types, 3)
        datasets == DatasetResource(db, products, 4)
    IN [db |-> db, users |-> users, metadata_types |-> metadata_types,
        products |-> products, datasets |-> datasets]

Managers == {"users", "metadata_types", "products", "datasets"}

\* Process i holds an Index whose handle exists.
HasIndex(i) == idx[i].db \in Indexes

\* Index.url
url(i) == IF HasIndex(i) THEN dbs[idx[i].db].url ELSE ""

\* Variant: the validate flag is dropped on the way to PostgresDb.from_config.
FromConfigArgs_NoValidate(application_name, validate_connection) ==
    [application_name |-> application_name, validate_connection |-> FALSE]

\* The keyword arguments Index.from_config hands to PostgresDb.from_config.
FromConfigArgs(application_name, validate_connection) ==
    [application_name |-> application_name,
     validate_connection |-> validate_connection]

\* The positional arguments connect_to_index hands to Index.from_config.
ConnectArgs(application_name, validate_connection) ==
    [application_name |-> application_name,
     validate_connection |-> validate_connection]

\* An exception leaving an operation inside a with-block ends the block's body.
ScopeOnRaise(i) ==
    IF scope[i] = "in" THEN [scope EXCEPT ![i] = "exc"] ELSE scope

\* Process i builds its Index under the name `via`; args is what reaches
\* PostgresDb.from_config.
Construct(i, via, config, application_name, validate_connection, args) ==
    /\ pc[i] = "new"
    /\ LET r == PostgresDb_from_config(config, args.application_name,
                                       args.validate_connection)
           o == [NewOp(i, via) EXCEPT
                    !.application_name = application_name,
                    !.validate_connection = validate_connection,
                    !.calls = <<Call("from_config", args.application_name,
                                     args.validate_connection)>>]
       IN IF r.raised
          THEN /\ op' = [op EXCEPT ![i] = [o EXCEPT !.out = "raised",
                                           !.err = "ConnectivityError"]]
               /\ UNCHANGED <<dbs, idx, ctor, pc>>
          ELSE /\ dbs' = [dbs EXCEPT ![i] = r.db]
               /\ idx' = [idx EXCEPT ![i] = Index__init__(i)]
               /\ ctor' = [ctor EXCEPT ![i] =
                              [db |-> i,
                               application_name |-> application_name,
                               validate_connection |-> validate_connection]]
               /\ pc' = [pc EXCEPT ![i] = "idle"]
               /\ op' = [op EXCEPT ![i] = [o EXCEPT !.ret = "Index"]]
    /\ UNCHANGED <<storeVars, histVars, scope>>

\* Index.from_config(config, application_name, validate_connection)
from_config(i, config, application_name, validate_connection) ==
    Construct(i, "from_config", config, application_name, validate_connection,
              FromConfigArgs(application_name, validate_connection))

\* DefaultIndexDriver.connect_to_index(config, application_name,
\* validate_connection)
connect_to_index(i, config, application_name, validate_connection) ==
    LET a == ConnectArgs(application_name, validate_connection)
    IN Construct(i, "connect_to_index", config, application_name,
                 validate_connection,
                 FromConfigArgs(a.application_name, a.validate_connection))

\* Index(db) on a handle the caller obtained from PostgresDb.from_config.
Index_new(i, config, application_name, validate_connection) ==
    Construct(i, "Index", config, application_name, validate_connection,
              [application_name |-> application_name,
               validate_connection |-> validate_connection])

----------------------------------------------------------------------------
\* init_db, line 56: the with_permissions argument of PostgresDb.init.
InitPermArg(with_permissions) == with_permissions

\* Variant: the defaults are added whatever the caller's flag.
SeedCondition_IgnoresFlag(is_new, with_default_types) == is_new

\* Variant: the defaults are added on every call that asks for them.
SeedCondition_IgnoresIsNew(is_new, with_default_types) == with_default_types

\* init_db, line 58: when the default metadata types are added.
SeedCondition(is_new, with_default_types) == is_new /\ with_default_types

\* Variant: the defaults are added without the table lock.
AddLockArg_NoLock == FALSE

\* init_db, line 61: the allow_table_lock argument of metadata_types.add.
AddLockArg == TRUE

\* Variant: an error of add is swallowed and the loop goes on.
OnAddError_Continue(k) == [raise |-> FALSE, k |-> k + 1]

\* init_db, lines 60-61: an error of add is not caught; the loop ends.
OnAddError(k) == [raise |-> TRUE, k |-> k]

\* Variant: init_db reports a new database every time.
init_db_return_AlwaysTrue(is_new) == TRUE

\* init_db, line 63: the returned value.
init_db_return(is_new) == is_new

Bump(n) == IF n < AddCallsCap THEN n + 1 ELSE n

\* The operation can start: the process is between operations and no
\* exception is in flight in a with-block.
Ready(i) == pc[i] = "idle" /\ scope[i] # "exc" /\ HasIndex(i)

\* init_db returns.
Returned(o) == [o EXCEPT !.out = "returned",
                         !.ret = PyBool(init_db_return(o.is_new))]

\* init_db(with_default_types, with_permissions) is called: line 56 enters
\* PostgresDb.init, which looks for the schema.
InitDbBegin(i, with_default_types, with_permissions) ==
    /\ Ready(i)
    /\ op' = [op EXCEPT ![i] =
          [NewOp(i, "init_db") EXCEPT
              !.first = ~called[i], !.fresh = ~schema,
              !.wdt = with_default_types, !.wp = with_permissions,
              !.out = "running",
              !.calls = <<Call("init", InitPermArg(with_permissions),
                               FALSE)>>]]
    /\ pc' = [pc EXCEPT ![i] = "L56"]
    /\ called' = [called EXCEPT ![i] = TRUE]
    /\ noDefaults' = (noDefaults \/ ~with_default_types)
    /\ UNCHANGED <<storeVars, dbs, idx, ctor, scope, initRaised,
                   seedFailedAt>>

\* init_db, line 56: PostgresDb.init returns is_new.
InitDbEnd(i) ==
    /\ pc[i] = "L56"
    /\ dbs[idx[i].db].good
    /\ LET r == PostgresDb_init(~op[i].fresh, op[i].calls[1].arg)
       IN /\ schema' = r.schema
          /\ op' = [op EXCEPT ![i] =
                [@ EXCEPT !.is_new = r.is_new,
                          !.calls = <<Call("init", @[1].arg, r.is_new)>>]]
    /\ dbs' = [dbs EXCEPT ![idx[i].db] = PostgresDb_use(@)]
    /\ pc' = [pc EXCEPT ![i] = "L58"]
    /\ UNCHANGED <<rows, tableLock, addCalls, idx, ctor, scope, histVars>>

\* init_db, line 56 raising: no connection (the store is untouched), or the
\* schema creation fails and leaves the schema created or not.
InitDbRaise(i, created) ==
    /\ pc[i] = "L56"
    /\ schema' = IF dbs[idx[i].db].good THEN (schema \/ created) ELSE schema
    /\ op' = [op EXCEPT ![i] =
          [@ EXCEPT !.out = "raised",
                    !.err = IF dbs[idx[i].db].good
                            THEN "SchemaInitializationError"
                            ELSE "ConnectivityError"]]
    /\ pc' = [pc EXCEPT ![i] = "idle"]
    /\ initRaised' = TRUE
    /\ scope' = ScopeOnRaise(i)
    /\ UNCHANGED <<rows, tableLock, addCalls, dbs, idx, ctor, called,
                   noDefaults, seedFailedAt>>

\* init_db, line 58: seed the defaults, or return.
init_db_L58(i) ==
    /\ pc[i] = "L58"
    /\ IF SeedCondition(op[i].is_new, op[i].wdt) /\ NumDocs > 0
       THEN /\ pc' = [pc EXCEPT ![i] = "L61"]
            /\ op' = [op EXCEPT ![i].k = 1]
       ELSE /\ pc' = [pc EXCEPT ![i] = "idle"]
            /\ op' = [op EXCEPT ![i] = Returned(@)]
    /\ UNCHANGED <<storeVars, dbs, idx, ctor, scope, histVars>>

\* The add call of line 61 for the k-th document, as logged.
AddCall(k) ==
    Call("add", MetadataType_from_doc(default_metadata_type_docs[k]).name,
         AddLockArg)

\* init_db, lines 60-61: metadata_types.add is called for the k-th document;
\* with allow_table_lock it takes the table lock, then it looks the type up.
AddBegin(i) ==
    /\ pc[i] = "L61"
    /\ LET k == op[i].k
           c == AddCall(k)
       IN /\ IF c.flag
             THEN tableLock = 0 /\ tableLock' = i
             ELSE UNCHANGED tableLock
          /\ addCalls' = [addCalls EXCEPT ![c.arg] = Bump(@)]
          /\ op' = [op EXCEPT ![i] =
                [@ EXCEPT !.calls = Append(@, c),
                          !.existing = (rows[c.arg] > 0)]]
    /\ pc' = [pc EXCEPT ![i] = "add"]
    /\ UNCHANGED <<schema, rows, dbs, idx, ctor, scope, histVars>>

\* The table lock after the add of process i: released if it held it.
Unlock(i) == IF tableLock = i THEN 0 ELSE tableLock

\* init_db, lines 60-61: the add of the k-th document completes; the loop
\* goes on, or init_db returns.
AddEnd(i) ==
    /\ pc[i] = "add"
    /\ LET k == op[i].k
           mt == MetadataType_from_doc(default_metadata_type_docs[k])
           o == [op[i] EXCEPT !.k = k + 1]
       IN /\ rows' = MetadataType_add(rows, mt, op[i].existing)
          /\ IF k < NumDocs
             THEN /\ op' = [op EXCEPT ![i] = o]
                  /\ pc' = [pc EXCEPT ![i] = "L61"]
             ELSE /\ op' = [op EXCEPT ![i] = Returned(o)]
                  /\ pc' = [pc EXCEPT ![i] = "idle"]
    /\ tableLock' = Unlock(i)
    /\ UNCHANGED <<schema, addCalls, dbs, idx, ctor, scope, histVars>>

\* init_db, lines 60-61: the add of the k-th document fails.
AddRaise(i) ==
    /\ pc[i] = "add"
    /\ LET k == op[i].k
           e == OnAddError(k)
       IN IF e.raise
          THEN /\ op' = [op EXCEPT ![i] =
                     [@ EXCEPT !.out = "raised",
                               !.err = "DefaultSeedingError"]]
               /\ pc' = [pc EXCEPT ![i] = "idle"]
               /\ initRaised' = TRUE
               /\ scope' = ScopeOnRaise(i)
          ELSE /\ IF e.k <= NumDocs
                  THEN /\ op' = [op EXCEPT ![i] = [@ EXCEPT !.k = e.k]]
                       /\ pc' = [pc EXCEPT ![i] = "L61"]
                  ELSE /\ op' = [op EXCEPT ![i] = Returned(@)]
                       /\ pc' = [pc EXCEPT ![i] = "idle"]
               /\ UNCHANGED <<initRaised, scope>>
    /\ seedFailedAt' = op[i].k
    /\ tableLock' = Unlock(i)
    /\ UNCHANGED <<schema, rows, addCalls, dbs, idx, ctor, called,
                   noDefaults>>

----------------------------------------------------------------------------
\* Variant: close() also lets go of the connection handle.
Index_close_DropsHandle(self, d) ==
    [self |-> [self EXCEPT !.db = 0],
     dbs |-> [d EXCEPT ![self.db] = PostgresDb_close(@)],
     calls |-> <<Call("close", PyNone, FALSE)>>,
     ret |-> PyNone]

\* Index.close(): what it calls, the object and the handles afterwards.
Index_close(self, d) ==
    [self |-> self,
     dbs |-> [d EXCEPT ![self.db] = PostgresDb_close(@)],
     calls |-> <<Call("close", PyNone, FALSE)>>,
     ret |-> PyNone]

\* Index.__enter__()
Index__enter__(self, d) ==
    [self |-> self, dbs |-> d, calls |-> <<>>, ret |-> "self"]

\* Variant: __exit__ closes only when the block ended without an error.
Index__exit__OnlyOnSuccess(self, d, exc) ==
    IF exc
    THEN [self |-> self, dbs |-> d, calls |-> <<>>, ret |-> PyNone]
    ELSE [self |-> self,
          dbs |-> [d EXCEPT ![self.db] = PostgresDb_close(@)],
          calls |-> <<Call("close", PyNone, FALSE)>>, ret |-> PyNone]

\* Variant: __exit__ returns True.
Index__exit__Suppresses(self, d, exc) ==
    [self |-> self,
     dbs |-> [d EXCEPT ![self.db] = PostgresDb_close(@)],
     calls |-> <<Call("close", PyNone, FALSE)>>, ret |-> PyBool(TRUE)]

\* Index.__exit__(type_, value, traceback); exc: an exception is in flight.
Index__exit__(self, d, exc) ==
    LET c == Index_close(self, d)
    IN [self |-> c.self, dbs |-> c.dbs, calls |-> c.calls, ret |-> PyNone]

\* The with statement re-raises the block's exception unless __exit__
\* returned a true value.
WithDelivers(exc, exit_ret) == exc /\ ~Truthy(exit_ret)

\* index.close() called by process i; close_fails: the handle's close()
\* raises, which close() does not catch.
Close(i, close_fails) ==
    /\ Ready(i)
    /\ LET r == Index_close(idx[i], dbs)
       IN IF close_fails
          THEN /\ op' = [op EXCEPT ![i] =
                     [NewOp(i, "close") EXCEPT !.calls = r.calls,
                                               !.out = "raised",
                                               !.err = "CloseError"]]
               /\ scope' = ScopeOnRaise(i)
               /\ UNCHANGED <<idx, dbs>>
          ELSE /\ idx' = [idx EXCEPT ![i] = r.self]
               /\ dbs' = r.dbs
               /\ op' = [op EXCEPT ![i] =
                     [NewOp(i, "close") EXCEPT !.calls = r.calls,
                                               !.ret = r.ret]]
               /\ UNCHANGED scope
    /\ UNCHANGED <<storeVars, ctor, pc, histVars>>

\* `with index:` entered by process i.
Enter(i) ==
    /\ Ready(i)
    /\ scope[i] = "out"
    /\ LET r == Index__enter__(idx[i], dbs)
       IN /\ idx' = [idx EXCEPT ![i] = r.self]
          /\ dbs' = r.dbs
          /\ op' = [op EXCEPT ![i] =
                [NewOp(i, "__enter__") EXCEPT !.calls = r.calls,
                                              !.ret = r.ret]]
    /\ scope' = [scope EXCEPT ![i] = "in"]
    /\ UNCHANGED <<storeVars, ctor, pc, histVars>>

\* The code inside the with-block raises.
BodyRaise(i) ==
    /\ Ready(i)
    /\ scope[i] = "in"
    /\ op' = [op EXCEPT ![i] =
          [NewOp(i, "body") EXCEPT !.out = "raised", !.err = "BodyError"]]
    /\ scope' = [scope EXCEPT ![i] = "exc"]
    /\ UNCHANGED <<storeVars, dbs, idx, ctor, pc, histVars>>

\* The with-block of process i ends, normally or with an exception in
\* flight; close_fails: the handle's close() raises inside __exit__, which
\* does not catch it, and the with statement delivers that error.
Exit(i, close_fails) ==
    /\ pc[i] = "idle"
    /\ HasIndex(i)
    /\ scope[i] \in {"in", "exc"}
    /\ LET exc == scope[i] = "exc"
           r == Index__exit__(idx[i], dbs, exc)
           delivered == WithDelivers(exc, r.ret)
       IN IF close_fails /\ Len(r.calls) > 0
          THEN /\ op' = [op EXCEPT ![i] =
                     [NewOp(i, "__exit__") EXCEPT
                         !.calls = r.calls, !.exc = exc,
                         !.out = "raised", !.err = "CloseError"]]
               /\ UNCHANGED <<idx, dbs>>
          ELSE /\ idx' = [idx EXCEPT ![i] = r.self]
               /\ dbs' = r.dbs
               /\ op' = [op EXCEPT ![i] =
                     [NewOp(i, "__exit__") EXCEPT
                         !.calls = r.calls, !.ret = r.ret, !.exc = exc,
                         !.out = IF delivered THEN "raised" ELSE "returned",
                         !.err = IF delivered THEN op[i].err ELSE "none"]]
    /\ scope' = [scope EXCEPT ![i] = "out"]
    /\ UNCHANGED <<storeVars, ctor, pc, histVars>>

\* An operation of resource manager m of the Index of process i: it works
\* through the manager's handle.
ManagerOp(i, m) ==
    /\ Ready(i)
    /\ idx[i][m].db \in Indexes
    /\ LET h == idx[i][m].db
       IN IF dbs[h].good
          THEN /\ dbs' = [dbs EXCEPT ![h] = PostgresDb_use(@)]
               /\ op' = [op EXCEPT ![i] = NewOp(i, m)]
               /\ UNCHANGED scope
          ELSE /\ op' = [op EXCEPT ![i] =
                     [NewOp(i, m) EXCEPT !.out = "raised",
                                         !.err = "ConnectivityError"]]
               /\ scope' = ScopeOnRaise(i)
               /\ UNCHANGED dbs
    /\ UNCHANGED <<storeVars, idx, ctor, pc, histVars>>

----------------------------------------------------------------------------
Init ==
    /\ schema = FALSE
    /\ rows = [n \in 1..NumDocs |-> 0]
    /\ tableLock = 0
    /\ addCalls = [n \in 1..NumDocs |-> 0]
    /\ dbs = [i \in Indexes |-> NoDb]
    /\ idx = [i \in Indexes |-> NoIndex]
    /\ ctor = [i \in Indexes |-> NoCtor]
    /\ pc = [i \in Indexes |-> "new"]
    /\ op = [i \in Indexes |-> NoOp]
    /\ scope = [i \in Indexes |-> "out"]
    /\ called = [i \in Indexes |-> FALSE]
    /\ initRaised = FALSE
    /\ noDefaults = FALSE
    /\ seedFailedAt = 0

\* One process with its Index: every operation of the facade.
Single == {1}

Next ==
    \E i \in Single :
        \/ \E c \in Configs, a \in AppNames, v \in BOOLEAN :
              from_config(i, c, a, v)
        \/ \E c \in Configs, a \in AppNames, v \in BOOLEAN :
              connect_to_index(i, c, a, v)
        \/ \E c \in Configs, a \in AppNames, v \in BOOLEAN :
              Index_new(i, c, a, v)
        \/ \E wdt \in BOOLEAN, wp \in BOOLEAN : InitDbBegin(i, wdt, wp)
        \/ InitDbEnd(i)
        \/ \E cr \in BOOLEAN : InitDbRaise(i, cr)
        \/ init_db_L58(i)
        \/ AddBegin(i)
        \/ AddEnd(i)
        \/ AddRaise(i)
        \/ Close(i, FALSE)
        \/ Enter(i)
        \/ BodyRaise(i)
        \/ Exit(i, FALSE)
        \/ \E m \in Managers : ManagerOp(i, m)

Spec == Init /\ [][Next]_vars

\* The same, with a connection handle whose close() may raise.
NextCloseFault ==
    \/ Next
    \/ \E i \in Single : Close(i, TRUE)
    \/ \E i \in Single : Exit(i, TRUE)

SpecCloseFault == Init /\ [][NextCloseFault]_vars

\* Several processes, each with its own Index, initialising the same store.
NextConc ==
    \E i \in Indexes :
        \/ \E c \in Configs : from_config(i, c, PyNone, TRUE)
        \/ InitDbBegin(i, TRUE, TRUE)
        \/ InitDbEnd(i)
        \/ \E cr \in BOOLEAN : InitDbRaise(i, cr)
        \/ init_db_L58(i)
        \/ AddBegin(i)
        \/ AddEnd(i)
        \/ AddRaise(i)

SpecConc == Init /\ [][NextConc]_vars

----------------------------------------------------------------------------
\* What the claims speak about.

Names == {default_metadata_type_docs[k].name : k \in 1..NumDocs}

\* The add calls operation record o logs for the metadata type named n.
AddsOf(o, n) ==
    Cardinality({j \in 1..Len(o.calls) :
                    o.calls[j].m = "add" /\ o.calls[j].arg = n})

\* Operation record o logs no metadata_types.add call.
NoAdd(o) == \A j \in 1..Len(o.calls) : o.calls[j].m # "add"

\* The close calls operation record o logs.
Closes(o) == Cardinality({j \in 1..Len(o.calls) : o.calls[j].m = "close"})

\* Process i is the only one that has called init_db.
OnlyCaller(i) == \A j \in Indexes \ {i} : ~called[j]

\* The Index of process i is as its constructor built it.
Intact(i) == HasIndex(i) /\ idx[i] = Index__init__(ctor[i].db)

\* The Index of process i accepts its operations: inside a with-block whose
\* body raised, the exit; otherwise init_db, close, url, a resource-manager
\* operation and (outside a with-block) the entry of a with-block.
Usable(i) ==
    /\ pc[i] = "idle"
    /\ HasIndex(i)
    /\ url(i) # ""
    /\ IF scope[i] = "exc"
       THEN ENABLED Exit(i, FALSE)
       ELSE /\ ENABLED Close(i, FALSE)
            /\ ENABLED (\E wdt \in BOOLEAN, wp \in BOOLEAN :
                           InitDbBegin(i, wdt, wp))
            /\ \A m \in Managers : ENABLED ManagerOp(i, m)
            /\ scope[i] = "out" => ENABLED Enter(i)

\* C1: in a sequence of init_db calls of one Index on a fresh store in which
\* no call raises, the first call returns True and, with with_default_types,
\* adds each default document exactly once; every later call returns False
\* and issues no metadata_types.add, whatever its flag; a returning call
\* returns exactly what PostgresDb.init returned.
C1_InitDbSequence ==
    \A i \in Indexes :
        LET o == op[i]
        IN (o.name = "init_db" /\ OnlyCaller(i)) =>
              /\ o.out = "returned" => o.ret = PyBool(o.calls[1].flag)
              /\ (o.first /\ o.fresh /\ o.out = "returned") =>
                    /\ o.ret = PyBool(TRUE)
                    /\ o.wdt => \A n \in Names :
                                   /\ AddsOf(o, n) = 1
                                   /\ addCalls[n] = 1
                                   /\ rows[n] = 1
              /\ (~o.first /\ ~initRaised) =>
                    /\ NoAdd(o)
                    /\ pc[i] \notin {"L61", "add"}
                    /\ o.out = "returned" => o.ret = PyBool(FALSE)

\* C1 witness: after a first call that seeded the defaults, a later
\* init_db(with_default_types=True) has returned False.
C1_Witness ==
    \E i \in Indexes :
        /\ op[i].name = "init_db" /\ ~op[i].first /\ op[i].wdt
        /\ op[i].out = "returned" /\ op[i].ret = PyBool(FALSE)
        /\ ~initRaised /\ OnlyCaller(i)
        /\ \A n \in Names : rows[n] = 1 /\ addCalls[n] = 1

\* C2: init_db(with_default_types=False) on a fresh store hands its
\* with_permissions flag to PostgresDb.init unchanged, issues no
\* metadata_types.add, and when it returns it returns True and the registry
\* holds none of the default documents.
C2_NoDefaults ==
    \A i \in Indexes :
        LET o == op[i]
        IN (o.name = "init_db" /\ o.fresh /\ ~o.wdt) =>
              /\ Len(o.calls) = 1
              /\ o.calls[1].m = "init" /\ o.calls[1].arg = o.wp
              /\ pc[i] \notin {"L61", "add"}
              /\ o.out = "returned" =>
                    /\ o.ret = PyBool(TRUE)
                    /\ \A n \in Names : rows[n] = 0 /\ addCalls[n] = 0

\* C2 witness: init_db(with_default_types=False, with_permissions=False) has
\* returned on a store that was fresh.
C2_Witness ==
    \E i \in Indexes :
        /\ op[i].name = "init_db" /\ op[i].fresh /\ ~op[i].wdt /\ ~op[i].wp
        /\ op[i].out = "returned" /\ schema

\* C3: when several processes run init_db(with_default_types=True) on the
\* same fresh store in any interleaving, the registry never holds a default
\* document twice, every add of init_db carries allow_table_lock=True (and
\* runs holding the table lock), and once all calls have returned each
\* default document is present exactly once.
C3_NoSeedingRace ==
    /\ \A i \in Indexes : \A j \in 1..Len(op[i].calls) :
          op[i].calls[j].m = "add" => op[i].calls[j].flag = TRUE
    /\ \A i \in Indexes : pc[i] = "add" => tableLock = i
    /\ ~noDefaults =>
          /\ \A n \in Names : rows[n] <= 1
          /\ ( /\ ~initRaised
               /\ \E i \in Indexes : called[i]
               /\ \A i \in Indexes : pc[i] \in {"new", "idle"} )
             => \A n \in Names : rows[n] = 1

\* C3 witness: two processes ran init_db(with_default_types=True) at the
\* same time, both went through the seeding loop and both have returned,
\* and every default document is there once.
C3_Witness ==
    \E i, j \in Indexes :
        /\ i # j /\ ~noDefaults /\ ~initRaised
        /\ op[i].name = "init_db" /\ op[i].out = "returned"
        /\ op[j].name = "init_db" /\ op[j].out = "returned"
        /\ \A n \in Names : AddsOf(op[i], n) = 1 /\ AddsOf(op[j], n) = 1
        /\ \A n \in Names : rows[n] = 1

\* C4: when a with-block ends, with or without an error raised inside it,
\* __exit__ has called close() of the connection handle exactly once, the
\* handle's idle connections are released and the block is over.
C4_ExitCloses ==
    \A i \in Indexes :
        op[i].name = "__exit__" =>
            /\ Closes(op[i]) = 1
            /\ Len(op[i].calls) = 1
            /\ scope[i] = "out"
            /\ HasIndex(i) /\ dbs[idx[i].db].idle = 0

\* C4 witness: a with-block whose body raised has ended.
C4_Witness ==
    \E i \in Indexes :
        /\ op[i].name = "__exit__" /\ op[i].exc
        /\ Closes(op[i]) = 1 /\ scope[i] = "out"

\* C5, state part: close() raises nothing, leaves the Index with the handle
\* and the four managers its constructor built and with its url, and the
\* Index stays usable; an operation that follows a close() and uses the
\* handle has a connection again.
C5_AfterClose ==
    \A i \in Indexes :
        /\ op[i].name = "close" =>
              /\ op[i].out = "returned" /\ op[i].err = "none"
              /\ Intact(i)
              /\ dbs[idx[i].db].idle = 0
              /\ Usable(i)
        /\ ( /\ op[i].prev_close
             /\ op[i].name \in Managers \cup {"init_db"}
             /\ pc[i] # "L56"
             /\ op[i].err = "none" ) =>
              /\ Intact(i)
              /\ dbs[idx[i].db].idle = 1

\* C5, step part: a close() that follows a close() changes nothing one can
\* observe: the Index object, its handle and its url stay as they are.
C5_SecondClose ==
    \A i \in Indexes :
        (op[i].name = "close" /\ op'[i].name = "close") =>
            /\ idx'[i] = idx[i]
            /\ dbs' = dbs
            /\ url(i)' = url(i)
            /\ op'[i].out = "returned"

\* C5: close() is idempotent and does not invalidate the Index.
C5_CloseIdempotent == [](C5_AfterClose) /\ [][C5_SecondClose]_vars

\* C5 witness: close() was called twice in a row and then a resource
\* manager worked through the handle again.
C5_Witness ==
    \E i \in Indexes :
        /\ op[i].name \in Managers /\ op[i].prev_close /\ op[i].err = "none"
        /\ dbs[idx[i].db].idle = 1

\* C6: when adding the k-th default document fails, init_db raises, the
\* documents before k stay added, those after k are never attempted, the
\* Index stays usable, and no later init_db adds a default document twice.
C6_PartialSeeding ==
    /\ \A i \in Indexes :
          (op[i].name = "init_db" /\ op[i].err = "DefaultSeedingError") =>
              /\ op[i].out = "raised"
              /\ op[i].k = seedFailedAt
              /\ Len(op[i].calls) = op[i].k + 1
              /\ Intact(i)
              /\ Usable(i)
    /\ seedFailedAt > 0 =>
          /\ initRaised
          /\ \A n \in Names :
                /\ n < seedFailedAt => rows[n] = 1 /\ addCalls[n] = 1
                /\ n > seedFailedAt => rows[n] = 0 /\ addCalls[n] = 0
                /\ addCalls[n] <= 1 /\ rows[n] <= 1
          /\ \A i \in Indexes :
                (op[i].name = "init_db" /\ op[i].err # "DefaultSeedingError")
                    => NoAdd(op[i]) /\ pc[i] \notin {"L61", "add"}

\* C6 witness: the add of the last default document failed, and a retry of
\* init_db has returned.
C6_Witness ==
    \E i \in Indexes :
        /\ seedFailedAt = NumDocs
        /\ op[i].name = "init_db" /\ ~op[i].first /\ op[i].wdt
        /\ op[i].out = "returned"

\* C7: from_config and connect_to_index call PostgresDb.from_config once,
\* with the application label and the validate flag they were given; when
\* that raises no Index is built, and an Index asked for with
\* validate_connection=True is fully wired on a handle whose connection is
\* good.
C7_ValidatedOrRaises ==
    \A i \in Indexes :
        LET o == op[i]
        IN /\ o.name \in {"from_config", "connect_to_index"} =>
                 /\ o.calls = <<Call("from_config", o.application_name,
                                     o.validate_connection)>>
                 /\ o.out = "raised" =>
                       /\ o.err = "ConnectivityError"
                       /\ ~HasIndex(i) /\ pc[i] = "new"
                       /\ dbs[i] = NoDb
                 /\ o.out = "returned" =>
                       /\ Intact(i)
                       /\ dbs[idx[i].db].application_name = o.application_name
                       /\ dbs[idx[i].db].validate_connection
                             = o.validate_connection
           /\ (HasIndex(i) /\ ctor[i].validate_connection) =>
                 dbs[idx[i].db].good

\* C7 witness: connect_to_index with validate_connection=True and an
\* application label has returned an Index.
C7_Witness ==
    \E i \in Indexes :
        /\ op[i].name = "connect_to_index" /\ op[i].out = "returned"
        /\ op[i].validate_connection /\ op[i].application_name = "app"
        /\ HasIndex(i) /\ dbs[idx[i].db].good

\* C8: an Index and its four resource managers all hold the one connection
\* handle the constructor was given, in every state.
C8_OneHandle ==
    \A i \in Indexes :
        pc[i] # "new" =>
            /\ HasIndex(i)
            /\ idx[i].db = ctor[i].db
            /\ \A m \in Managers : idx[i][m].db = idx[i].db

\* C8 witness: an Index that went through init_db and close() has left a
\* with-block.
C8_Witness ==
    \E i \in Indexes :
        /\ op[i].name = "__exit__" /\ called[i] /\ op[i].prev_close
        /\ idx[i].products.db = ctor[i].db

\* C9: in every Index the metadata-type registry was built before the
\* product registry and is the one injected into it, the product registry
\* was built before the dataset registry and is the one injected into it,
\* and the user registry holds the connection only.
C9_DependencyOrder ==
    \A i \in Indexes :
        pc[i] # "new" =>
            LET x == idx[i]
            IN /\ x.metadata_types.born < x.products.born
               /\ x.products.metadata_type_resource = x.metadata_types.born
               /\ x.products.born < x.datasets.born
               /\ x.datasets.product_resource = x.products.born
               /\ DOMAIN x.users = {"db", "born"}

\* C9 witness: an Index built by the constructor alone.
C9_Witness ==
    \E i \in Indexes :
        /\ op[i].name = "Index" /\ op[i].out = "returned"
        /\ idx[i].datasets.product_resource = 3

\* C10: __enter__ returns the Index and calls nothing on the connection;
\* __exit__ returns nothing true, so an error raised in the block reaches
\* the caller after close() was called; an error of close() inside __exit__
\* reaches the caller too.
C10_NothingSwallowed ==
    \A i \in Indexes :
        LET o == op[i]
        IN /\ o.name = "__enter__" =>
                 o.ret = "self" /\ o.calls = <<>> /\ o.out = "returned"
           /\ o.name = "__exit__" =>
                 /\ Closes(o) = 1
                 /\ o.out = "returned" => ~Truthy(o.ret) /\ ~o.exc
                 /\ o.exc => o.out = "raised" /\ o.err # "none"
                 /\ o.out = "raised" =>
                       o.err \in {"BodyError", "CloseError",
                                  "ConnectivityError",
                                  "SchemaInitializationError",
                                  "DefaultSeedingError"}

\* C10 witness: the body of a with-block raised and close() raised inside
\* __exit__; the caller got the error of close().
C10_Witness ==
    \E i \in Indexes :
        /\ op[i].name = "__exit__" /\ op[i].exc
        /\ op[i].out = "raised" /\ op[i].err = "CloseError"

====
